---- MODULE Spec2Model ----
(***************************************************************************)
(* Car-Market client: the listing image uploader (ListingImageUploader),   *)
(* its upload/commit and delete mutations, and the two remote stores they  *)
(* write to (object storage bucket, listing_images table).                 *)
(*                                                                         *)
(* Strings the code takes apart (file names, extensions) are tuples of     *)
(* one-character strings; all other strings are TLA+ strings.              *)
(***************************************************************************)
EXTENDS Integers, Sequences, FiniteSets, TLC

\* ------------------------------------------------------------- bounds
\* longest pending selection (selected.length)
MaxFiles == 2
\* upload invocations that can be in flight together
MaxInv == 1
\* object paths generated during one run
MaxPaths == 2

\* longest generated file name, in characters
MaxNameLen == 4

NULL == "null"

\* ------------------------------------------------------- pure helpers
BUCKET == "project-images"

UpperChars == <<"A","B","C","D","E","F","G","H","I","J","K","L","M",
                "N","O","P","Q","R","S","T","U","V","W","X","Y","Z">>
LowerChars == <<"a","b","c","d","e","f","g","h","i","j","k","l","m",
                "n","o","p","q","r","s","t","u","v","w","x","y","z">>

\* String.prototype.toLowerCase on one character
LowerChar(c) ==
  IF \E k \in 1..Len(UpperChars) : UpperChars[k] = c
  THEN LowerChars[CHOOSE k \in 1..Len(UpperChars) : UpperChars[k] = c]
  ELSE c

toLowerCase(s) == [k \in 1..Len(s) |-> LowerChar(s[k])]

\* filename.split("."): the pieces between dots, at least one piece
RECURSIVE SplitFrom(_, _, _)
SplitFrom(s, k, cur) ==
  IF k > Len(s) THEN <<cur>>
  ELSE IF s[k] = "." THEN <<cur>> \o SplitFrom(s, k + 1, <<>>)
  ELSE SplitFrom(s, k + 1, Append(cur, s[k]))

split(s) == SplitFrom(s, 1, <<>>)

jpg == <<"j","p","g">>

\* variant of getFileExt: the case of the last piece is kept
getFileExtCaseKept(filename) ==
  LET parts == split(filename)
  IN  IF Len(parts) > 1 THEN parts[Len(parts)] ELSE jpg

getFileExt(filename) ==
  LET parts == split(filename)
  IN  IF Len(parts) > 1 THEN toLowerCase(parts[Len(parts)]) ELSE jpg

allowed == { jpg, <<"j","p","e","g">>, <<"p","n","g">>,
             <<"w","e","b","p">>, <<"g","i","f">> }

safeImageExt(ext) == IF ext \in allowed THEN ext ELSE jpg

\* variant of buildObjectPath: the id part is always the same
buildObjectPathFixedId(listing, id, ext) ==
  [listing |-> listing, id |-> 1, ext |-> ext]

\* `listings/${listingId}/${id}.${ext}`; id is the random part
buildObjectPath(listing, id, ext) ==
  [listing |-> listing, id |-> id, ext |-> ext]

\* Math.max(...positions) over a non-empty collection
Max(S) == CHOOSE m \in S : \A n \in S : n <= m

\* ------------------------------------------------------------- files
\* the files the user can pick in this model
FileA == [name |-> <<"a",".","P","N","G">>, type |-> <<"image","png">>]
FileB == [name |-> <<"b",".","h","e","i","c">>, type |-> <<"image","heic">>]
FileC == [name |-> <<"c",".","t","x","t">>, type |-> <<"text","plain">>]
Files == {FileA, FileB, FileC}

\* file names for the extension functions: every name of at most MaxNameLen
\* characters over NameChars, and some longer ones
NameChars == {".", "p", "n", "g", "P"}

RECURSIVE NamesUpTo(_)
NamesUpTo(n) ==
  IF n = 0 THEN { <<>> }
  ELSE LET shorter == NamesUpTo(n - 1)
       IN  shorter \cup { Append(s, c) : s \in shorter, c \in NameChars }

LongNames ==
  { <<"p","h","o","t","o",".","h","e","i","c">>,
    <<"a",".","P","N","G">>,
    <<"x",".","J","p","E","g">>,
    <<"x",".","w","e","b","p">>,
    <<"x",".","G","I","F">>,
    <<"a",".","t","a","r",".","g","i","f">>,
    <<"a",".","p","n","g",".","t","x","t">>,
    <<"n","o","d","o","t">>,
    <<"e","n","d","d","o","t",".">> }

FileNames == NamesUpTo(MaxNameLen) \cup LongNames

\* an image File of the given name
NamedFile(name) == [name |-> name, type |-> <<"image","any">>]

\* f.type.startsWith("image/")
IsImageType(f) == f.type[1] = "image"

\* the FileLists the file input hands over in this model
FileLists == { <<FileA>>, <<FileB>>, <<FileC>>, <<FileA, FileB>>,
               <<FileC, FileB>> }

\* arr.filter((f) => f.type.startsWith("image/")), order kept
RECURSIVE FilterImages(_)
FilterImages(s) ==
  IF s = <<>> THEN <<>>
  ELSE (IF IsImageType(Head(s)) THEN <<Head(s)>> ELSE <<>>)
       \o FilterImages(Tail(s))

\* prev.filter((_, i) => i !== index), index 0-based
RemoveAt(s, index) ==
  IF index >= Len(s) THEN s
  ELSE [k \in 1..(Len(s) - 1) |-> IF k <= index THEN s[k] ELSE s[k + 1]]

\* ------------------------------------------------------------- state
VARIABLES
  host,            \* who renders the uploader: "ListingForm" or "standalone"
  listingId,       \* the listingId prop
  existingImages,  \* the existingImages prop (set of ExistingImage)
  selected,        \* useState<File[]>
  busy,            \* useState(false)
  errorMsg,        \* useState<string|null>
  inv,             \* upload invocations (uploadMutation), by slot
  del,             \* the delete mutation (deleteMutation)
  objects,         \* object store, bucket BUCKET: set of [path, file]
  rows,            \* listing_images table
  nextId,          \* next random path id
  nextRowId,       \* next listing_images.id
  listingForm,     \* ListingForm: props, fields and its save mutation
  contactModal,    \* ContactSellerModal: props, message and its send mutation
  threadPage,      \* MessageThreadPage: params, text and its send mutation
  session,         \* who is signed in in this browser, and the admin check
  detailsPage,     \* ListingDetailsPage: route param and its queries
  editPage         \* EditListingPage: route param and its queries

vars == << host, listingId, existingImages, selected, busy, errorMsg,
           inv, del, objects, rows, nextId, nextRowId,
           listingForm, contactModal, threadPage,
           session, detailsPage, editPage >>

ui    == << selected, busy, errorMsg >>
store == << objects, rows, nextId, nextRowId >>
props == << host, listingId >>
pages == << session, detailsPage, editPage >>
others == << listingForm, contactModal, threadPage, pages >>

\* slots of upload invocations
Inv == DOMAIN inv

IdleInv ==
  [ pc |-> "idle", sel |-> <<>>, startPos |-> 0, tableMax |-> -1,
    uploadedRows |-> <<>>, calls |-> <<>>, err |-> NULL,
    invalidated |-> <<>>, onUploaded |-> FALSE ]

IdleDel ==
  [ pc |-> "idle", img |-> NULL, calls |-> <<>>, err |-> NULL,
    invalidated |-> <<>>, onUploaded |-> FALSE ]

\* the listing form, the contact modal and the thread page as they are
\* while the uploader is at work: filled in validly, nothing sent
IdleForm ==
  [ mode |-> "edit", listingId |-> "L1",
    form |-> [ make |-> <<"T">>, model |-> <<"T">>, year |-> <<"2","0">>,
               price |-> <<"9",".","5">>, mileage |-> <<"7">>,
               fuel_type |-> <<"G">>, transmission |-> <<"G">> ],
    status |-> "idle", calls |-> <<>>, errorMsg |-> NULL,
    onCreated |-> NULL, onSaved |-> FALSE ]

IdleContact ==
  [ userId |-> "U1", listingId |-> "L1", sellerId |-> "S1",
    message |-> <<>>, notice |-> NULL, status |-> "idle", calls |-> <<>> ]

IdleThread ==
  [ userId |-> "U1", listingId |-> "L1", buyerId |-> "U1",
    listing |-> "S1", text |-> <<>>, status |-> "idle", calls |-> <<>>,
    error |-> NULL ]

\* the seller of listing L1 is signed in and no page but the one that
\* hosts the component at work is open
SellerSession == [ user |-> "S1", isAdmin |-> FALSE ]

IdleDetails ==
  [ mounted |-> FALSE, id |-> "", listingStatus |-> "idle", row |-> <<>>,
    authStatus |-> "idle", userId |-> NULL,
    adminStatus |-> "idle", isAdmin |-> FALSE ]

IdleEdit ==
  [ mounted |-> FALSE, id |-> "", via |-> "none",
    authStatus |-> "idle", userId |-> NULL,
    listingStatus |-> "idle", listing |-> <<>>, calls |-> <<>> ]

PagesClosed ==
  /\ session = SellerSession
  /\ detailsPage = IdleDetails
  /\ editPage = IdleEdit

\* a listing_images row as the ExistingImage a fetch returns
AsExisting(r) ==
  [id |-> r.id, bucket |-> r.bucket, path |-> r.path, position |-> r.position]

Init ==
  /\ host \in {"ListingForm", "standalone"}
  /\ listingId \in (IF host = "ListingForm" THEN {"L1"} ELSE {"L1", ""})
  /\ existingImages = {}
  /\ selected = <<>>
  /\ busy = FALSE
  /\ errorMsg = NULL
  /\ inv = [i \in 1..MaxInv |-> IdleInv]
  /\ del = IdleDel
  /\ objects = {}
  /\ rows = {}
  /\ nextId = 1
  /\ nextRowId = 1
  /\ listingForm = IdleForm
  /\ contactModal = IdleContact
  /\ threadPage = IdleThread
  /\ PagesClosed

\* ------------------------------------------------- store operations
StoredPaths == { o.path : o \in objects }

\* variant of UploadResult: the put overwrites (upsert)
UploadResultUpserting(path, outcome) ==
  IF outcome = "ok" THEN "ok" ELSE "error"

\* supabase.storage.from(BUCKET).upload(path, file, {upsert: false}):
\* the put takes effect only when the service accepts it and, overwrite
\* being declined, only when nothing is stored at the path
UploadResult(path, outcome) ==
  IF outcome = "ok" /\ path \notin StoredPaths THEN "ok" ELSE "error"

\* supabase.storage.from(bucket).remove(paths): the objects left afterwards
AfterRemove(paths, outcome) ==
  IF outcome = "ok" THEN { o \in objects : o.path \notin paths } ELSE objects

\* message of the StorageError returned for the put of `path`
UploadErrorMessage(path) == "upload failed: " \o ToString(path.id)
InsertErrorMessage == "insert failed"
DeleteErrorMessage == "row delete failed"

\* variant of ShownMessage: the error's own message is not used
ShownMessageGeneric(message) == "Upload failed"

\* err?.message ?? "Upload failed"
ShownMessage(message) == IF message = NULL THEN "Upload failed" ELSE message

\* ------------------------------------------------ upload invocations
Free(i) == inv[i].pc \in {"idle", "done", "failed"}
InFlight(i) == ~Free(i)

\* uploads still to be issued by the invocations in flight
RECURSIVE Pending(_)
Pending(S) ==
  IF S = {} THEN 0
  ELSE LET i == CHOOSE j \in S : TRUE
       IN  (IF inv[i].pc = "uploading"
            THEN Len(inv[i].sel) - Len(inv[i].uploadedRows) ELSE 0)
           + Pending(S \ {i})

\* variant of startPosOf: numbering from 1 when there is no image
startPosFromOne(existing) ==
  IF Cardinality(existing) > 0
  THEN Max({ img.position : img \in existing }) + 1
  ELSE 1

\* existingSorted.length > 0 ? Math.max(...positions) + 1 : 0
startPosOf(existing) ==
  IF Cardinality(existing) > 0
  THEN Max({ img.position : img \in existing }) + 1
  ELSE 0

\* largest position the table holds for the listing, -1 when it holds none
\* (recorded when an invocation starts; the code never reads it)
TableMax ==
  LET ps == { r.position : r \in { q \in rows : q.listing_id = listingId } }
  IN  IF ps = {} THEN -1 ELSE Max(ps)

\* variant of begin: an empty selection is rejected as an error
beginRejectingEmpty(sel) ==
  LET rec == [IdleInv EXCEPT !.sel = sel]
  IN  IF listingId = ""
      THEN [rec EXCEPT !.pc = "failed", !.err = "listingId is required"]
      ELSE IF Len(sel) = 0
      THEN [rec EXCEPT !.pc = "failed", !.err = "no files selected"]
      ELSE [rec EXCEPT !.pc = "uploading",
                       !.startPos = startPosOf(existingImages)]

\* variant of begin: listingId is not checked
beginWithoutIdCheck(sel) ==
  LET rec == [IdleInv EXCEPT !.sel = sel]
  IN  IF Len(sel) = 0
      THEN [rec EXCEPT !.pc = "onSuccess"]
      ELSE [rec EXCEPT !.pc = "uploading",
                       !.startPos = startPosOf(existingImages)]

\* mutationFn up to its first await, for the closure's `selected`:
\* the two local checks, then startPos
begin(sel) ==
  LET rec == [IdleInv EXCEPT !.sel = sel]
  IN  IF listingId = ""
      THEN [rec EXCEPT !.pc = "failed", !.err = "listingId is required"]
      ELSE IF Len(sel) = 0
      THEN [rec EXCEPT !.pc = "onSuccess"]
      ELSE [rec EXCEPT !.pc = "uploading",
                       !.startPos = startPosOf(existingImages)]

\* variant of SetState: onSettled does not reset busy
SetStateKeepingBusy(old, new) ==
  IF new.pc = "failed"
  THEN /\ errorMsg' = ShownMessage(new.err)
       /\ busy' = busy
  ELSE IF old.pc # "uploading" /\ new.pc = "uploading"
  THEN /\ errorMsg' = NULL
       /\ busy' = TRUE
  ELSE UNCHANGED << errorMsg, busy >>

\* the component state an invocation writes on the step old -> new:
\* setErrorMsg(null), setBusy(true) when the loop is entered; onError and
\* onSettled when it has thrown
SetState(old, new) ==
  IF new.pc = "failed"
  THEN /\ errorMsg' = ShownMessage(new.err)
       /\ busy' = FALSE
  ELSE IF old.pc # "uploading" /\ new.pc = "uploading"
  THEN /\ errorMsg' = NULL
       /\ busy' = TRUE
  ELSE UNCHANGED << errorMsg, busy >>

\* uploadMutation.mutate(): the closure is the one of the current render
mutate(i, sel) ==
  /\ Free(i)
  /\ \A j \in Inv : j < i => InFlight(j)
  /\ (nextId - 1) + Pending(Inv) + Len(sel) <= MaxPaths
  /\ LET new == [begin(sel) EXCEPT !.tableMax = TableMax]
     IN  /\ inv' = [inv EXCEPT ![i] = new]
         /\ SetState(inv[i], new)
  /\ UNCHANGED << selected, del, store, props, others, existingImages >>

\* the Upload button: disabled={busy || selected.length === 0}
UploadEnabled == ~busy /\ Len(selected) # 0

ClickUpload == UploadEnabled /\ \E i \in Inv : mutate(i, selected)

\* variant of afterUpload: uploadError is not looked at, the loop goes on
afterUploadIgnoringError(rec, path, file, res) ==
  LET call == [op |-> "upload", result |-> res,
               arg |-> [path |-> path, file |-> file, upsert |-> FALSE]]
      k == Len(rec.uploadedRows)
  IN  [rec EXCEPT
         !.calls = Append(@, call),
         !.uploadedRows = Append(@, [bucket |-> BUCKET, path |-> path,
                                     position |-> rec.startPos + k]),
         !.pc = IF k + 1 < Len(rec.sel) THEN "uploading" ELSE "inserting"]

\* variant of afterUpload: a failed put is followed by the rollback
afterUploadRollingBack(rec, path, file, res) ==
  LET call == [op |-> "upload", result |-> res,
               arg |-> [path |-> path, file |-> file, upsert |-> FALSE]]
      logged == [rec EXCEPT !.calls = Append(@, call)]
      k == Len(rec.uploadedRows)
  IN  IF res = "ok"
      THEN [logged EXCEPT
              !.uploadedRows = Append(@, [bucket |-> BUCKET, path |-> path,
                                          position |-> rec.startPos + k]),
              !.pc = IF k + 1 < Len(rec.sel) THEN "uploading" ELSE "inserting"]
      ELSE [logged EXCEPT !.pc = "rollback", !.err = UploadErrorMessage(path)]

\* variant of afterUpload: the first failed put of an invocation is tried
\* again
afterUploadRetryingOnce(rec, path, file, res) ==
  LET call == [op |-> "upload", result |-> res,
               arg |-> [path |-> path, file |-> file, upsert |-> FALSE]]
      logged == [rec EXCEPT !.calls = Append(@, call)]
      k == Len(rec.uploadedRows)
      failedBefore == \E c \in 1..Len(rec.calls) : rec.calls[c].result # "ok"
  IN  IF res = "ok"
      THEN [logged EXCEPT
              !.uploadedRows = Append(@, [bucket |-> BUCKET, path |-> path,
                                          position |-> rec.startPos + k]),
              !.pc = IF k + 1 < Len(rec.sel) THEN "uploading" ELSE "inserting"]
      ELSE IF failedBefore
      THEN [logged EXCEPT !.pc = "failed", !.err = UploadErrorMessage(path)]
      ELSE logged

\* the loop body after the put of `file` at `path` returned `res`:
\* if (uploadError) throw uploadError; uploadedRows.push({...})
afterUpload(rec, path, file, res) ==
  LET call == [op |-> "upload", result |-> res,
               arg |-> [path |-> path, file |-> file, upsert |-> FALSE]]
      logged == [rec EXCEPT !.calls = Append(@, call)]
      k == Len(rec.uploadedRows)
  IN  IF res = "ok"
      THEN [logged EXCEPT
              !.uploadedRows = Append(@, [bucket |-> BUCKET, path |-> path,
                                          position |-> rec.startPos + k]),
              !.pc = IF k + 1 < Len(rec.sel) THEN "uploading" ELSE "inserting"]
      ELSE [logged EXCEPT !.pc = "failed", !.err = UploadErrorMessage(path)]

\* one turn of the for loop: build the path, await the put, push the row
UploadFile(i) ==
  /\ inv[i].pc = "uploading"
  /\ LET rec  == inv[i]
         file == rec.sel[Len(rec.uploadedRows) + 1]
         ext  == safeImageExt(getFileExt(file.name))
         path == buildObjectPath(listingId, nextId, ext)
     IN  \E outcome \in {"ok", "error"} :
           LET res == UploadResult(path, outcome)
               new == afterUpload(rec, path, file, res)
           IN  /\ objects' = IF res = "ok"
                             THEN objects \cup {[path |-> path, file |-> file]}
                             ELSE objects
               /\ inv' = [inv EXCEPT ![i] = new]
               /\ SetState(rec, new)
  /\ nextId' = nextId + 1
  /\ UNCHANGED << selected, del, rows, nextRowId, props, others,
                  existingImages >>

\* variant of payloadOf: only the row of the last file is sent
payloadOfLast(rec) ==
  LET n == Len(rec.uploadedRows)
  IN  << [listing_id |-> listingId, bucket |-> rec.uploadedRows[n].bucket,
          path |-> rec.uploadedRows[n].path,
          position |-> rec.uploadedRows[n].position] >>

\* uploadedRows.map(r => ({listing_id, bucket, path, position}))
payloadOf(rec) ==
  [k \in 1..Len(rec.uploadedRows) |->
     [listing_id |-> listingId, bucket |-> rec.uploadedRows[k].bucket,
      path |-> rec.uploadedRows[k].path,
      position |-> rec.uploadedRows[k].position]]

\* variant of InsertedRows: a row is kept out when the listing already has
\* a row at its position
InsertedRowsAtFreePositions(payload) ==
  { [id |-> nextRowId + k - 1, listing_id |-> payload[k].listing_id,
     bucket |-> payload[k].bucket, path |-> payload[k].path,
     position |-> payload[k].position] :
      k \in { j \in 1..Len(payload) :
                \A r \in rows : \/ r.listing_id # payload[j].listing_id
                                \/ r.position # payload[j].position } }

\* the rows the table holds for an accepted payload (id set by the table)
InsertedRows(payload) ==
  { [id |-> nextRowId + k - 1, listing_id |-> payload[k].listing_id,
     bucket |-> payload[k].bucket, path |-> payload[k].path,
     position |-> payload[k].position] : k \in 1..Len(payload) }

\* variant of afterInsert: an accepted insert ends the invocation at once
afterInsertSkippingOnSuccess(rec, payload, outcome) ==
  LET call == [op |-> "insert", result |-> outcome, arg |-> payload]
      logged == [rec EXCEPT !.calls = Append(@, call)]
  IN  IF outcome = "ok"
      THEN [logged EXCEPT !.pc = "done"]
      ELSE [logged EXCEPT !.pc = "rollback", !.err = InsertErrorMessage]

\* variant of afterInsert: the uploaded objects are rolled back whatever
\* the insert returned
afterInsertRollingBackAlways(rec, payload, outcome) ==
  LET call == [op |-> "insert", result |-> outcome, arg |-> payload]
      logged == [rec EXCEPT !.calls = Append(@, call)]
  IN  [logged EXCEPT !.pc = "rollback", !.err = InsertErrorMessage]

\* after the insert returned: if (insertError) the rollback is next,
\* else setSelected([]) and the mutation has succeeded
afterInsert(rec, payload, outcome) ==
  LET call == [op |-> "insert", result |-> outcome, arg |-> payload]
      logged == [rec EXCEPT !.calls = Append(@, call)]
  IN  IF outcome = "ok"
      THEN [logged EXCEPT !.pc = "onSuccess"]
      ELSE [logged EXCEPT !.pc = "rollback", !.err = InsertErrorMessage]

\* await supabase.from("listing_images").insert(payload)
InsertRows(i) ==
  /\ inv[i].pc = "inserting"
  /\ LET rec == inv[i]
         payload == payloadOf(rec)
     IN  \E outcome \in {"ok", "error"} :
           LET new == afterInsert(rec, payload, outcome)
           IN  /\ inv' = [inv EXCEPT ![i] = new]
               /\ IF outcome = "ok"
                  THEN /\ rows' = rows \cup InsertedRows(payload)
                       /\ nextRowId' = nextRowId + Len(payload)
                  ELSE UNCHANGED << rows, nextRowId >>
               /\ selected' = IF new.pc = "onSuccess" THEN <<>> ELSE selected
  /\ UNCHANGED << busy, errorMsg, del, objects, nextId, props, others,
                  existingImages >>

\* variant of rollbackPaths: only the last uploaded path is removed
rollbackLastPath(rec) ==
  << rec.uploadedRows[Len(rec.uploadedRows)].path >>

\* uploadedRows.map((r) => r.path)
rollbackPaths(rec) ==
  [k \in 1..Len(rec.uploadedRows) |-> rec.uploadedRows[k].path]

\* variant of afterRollback: a failure of the remove is what is thrown
afterRollbackMasking(rec, paths, outcome) ==
  LET call == [op |-> "remove", result |-> outcome, arg |-> paths]
  IN  [rec EXCEPT !.calls = Append(@, call), !.pc = "failed",
                  !.err = IF outcome = "ok" THEN @ ELSE "remove failed"]

\* try { await remove(paths) } catch {}; throw insertError
afterRollback(rec, paths, outcome) ==
  LET call == [op |-> "remove", result |-> outcome, arg |-> paths]
  IN  [rec EXCEPT !.calls = Append(@, call), !.pc = "failed"]

\* the best-effort rollback of an invocation whose insert failed: the
\* remove resolves (with or without an error, not looked at) or throws
Rollback(i) ==
  /\ inv[i].pc = "rollback"
  /\ LET rec == inv[i]
         paths == rollbackPaths(rec)
     IN  \E outcome \in {"ok", "error", "throw"} :
           LET new == afterRollback(rec, paths, outcome)
           IN  /\ objects' = AfterRemove({ paths[k] : k \in 1..Len(paths) },
                                         outcome)
               /\ inv' = [inv EXCEPT ![i] = new]
               /\ SetState(rec, new)
  /\ UNCHANGED << selected, del, rows, nextId, nextRowId, props, others,
                  existingImages >>

QueryKeys == << <<"listing", listingId>>, <<"listing-images", listingId>> >>

\* what existingImages is once the invalidations of an onSuccess have been
\* awaited: a host that passes existingImages re-fetches the listing's
\* images (table content `table`) and renders the uploader with them;
\* ListingForm passes none, so the prop keeps its default []
Refetched(table) ==
  IF host = "standalone"
  THEN { AsExisting(r) : r \in { q \in table : q.listing_id = listingId } }
  ELSE {}

\* onSuccess (two awaited invalidations, onUploaded?.()), then onSettled
UploadSucceeded(i) ==
  /\ inv[i].pc = "onSuccess"
  /\ inv' = [inv EXCEPT ![i] =
       [@ EXCEPT !.pc = "done", !.invalidated = QueryKeys,
                 !.onUploaded = (host = "standalone")]]
  /\ existingImages' = Refetched(rows)
  /\ busy' = FALSE
  /\ UNCHANGED << selected, errorMsg, del, store, props, others >>

\* ------------------------------------------------ the delete mutation
\* variant of afterDelete: an error of the object remove is thrown
afterDeleteStrict(img, rowOutcome, objOutcome) ==
  LET rowCall == [op |-> "delete", result |-> rowOutcome, arg |-> img.id]
      objCall == [op |-> "remove", result |-> objOutcome, arg |-> <<img.path>>]
  IN  IF rowOutcome # "ok"
      THEN [IdleDel EXCEPT !.pc = "failed", !.img = img,
                           !.calls = <<rowCall>>, !.err = DeleteErrorMessage]
      ELSE IF objOutcome # "ok"
      THEN [IdleDel EXCEPT !.pc = "failed", !.img = img,
                           !.calls = <<rowCall, objCall>>,
                           !.err = "storage delete failed"]
      ELSE [IdleDel EXCEPT !.pc = "done", !.img = img,
                           !.calls = <<rowCall, objCall>>,
                           !.invalidated = QueryKeys,
                           !.onUploaded = (host = "standalone")]

\* variant of afterDelete: the object remove is attempted whatever the row
\* delete returned
afterDeleteRemovingAnyway(img, rowOutcome, objOutcome) ==
  LET rowCall == [op |-> "delete", result |-> rowOutcome, arg |-> img.id]
      objCall == [op |-> "remove", result |-> objOutcome, arg |-> <<img.path>>]
  IN  IF rowOutcome # "ok"
      THEN [IdleDel EXCEPT !.pc = "failed", !.img = img,
                           !.calls = <<rowCall, objCall>>,
                           !.err = DeleteErrorMessage]
      ELSE [IdleDel EXCEPT !.pc = "done", !.img = img,
                           !.calls = <<rowCall, objCall>>,
                           !.invalidated = QueryKeys,
                           !.onUploaded = (host = "standalone")]

\* the record of a delete operation run to its end:
\*   1) delete the row by id; an error is thrown (the mutation fails)
\*   2) remove the object; an error is only warned about
\*   onSuccess: two awaited invalidations, onUploaded?.()
afterDelete(img, rowOutcome, objOutcome) ==
  LET rowCall == [op |-> "delete", result |-> rowOutcome, arg |-> img.id]
      objCall == [op |-> "remove", result |-> objOutcome, arg |-> <<img.path>>]
  IN  IF rowOutcome # "ok"
      THEN [IdleDel EXCEPT !.pc = "failed", !.img = img,
                           !.calls = <<rowCall>>, !.err = DeleteErrorMessage]
      ELSE [IdleDel EXCEPT !.pc = "done", !.img = img,
                           !.calls = <<rowCall, objCall>>,
                           !.invalidated = QueryKeys,
                           !.onUploaded = (host = "standalone")]

\* deleteMutation.mutate(img). The handler's awaits touch only the row and
\* the object of img, which no upload invocation reads or writes, so the
\* handler is one action; the host's re-fetch follows its invalidations
deleteMutation(img, rowOutcome, objOutcome) ==
  LET new == afterDelete(img, rowOutcome, objOutcome)
      removes == \E k \in 1..Len(new.calls) : new.calls[k].op = "remove"
  IN  /\ del' = new
      /\ rows' = IF rowOutcome = "ok"
                 THEN { r \in rows : r.id # img.id } ELSE rows
      /\ objects' = IF removes THEN AfterRemove({img.path}, objOutcome)
                    ELSE objects
      /\ existingImages' = IF new.invalidated # <<>>
                           THEN Refetched(rows') ELSE existingImages

\* existingSorted.map: one remove button per existing image
ClickDelete ==
  /\ \E img \in existingImages :
       \E rowOutcome \in {"ok", "error"}, objOutcome \in {"ok", "error"} :
         deleteMutation(img, rowOutcome, objOutcome)
  /\ UNCHANGED << ui, inv, nextId, nextRowId, props, others >>

\* ------------------------------------------------------- UI and host
\* onPick(files) from the "Add images" input (button disabled={busy})
onPick ==
  /\ ~busy
  /\ \E files \in FileLists :
       LET filtered == FilterImages(files)
       IN  /\ Len(selected) + Len(filtered) <= MaxFiles
           /\ selected' = selected \o filtered
  /\ UNCHANGED << busy, errorMsg, inv, del, store, props, others,
                  existingImages >>

\* removeSelected(idx) from a preview's button (disabled={busy})
removeSelected ==
  /\ ~busy
  /\ \E index \in 0..(Len(selected) - 1) :
       selected' = RemoveAt(selected, index)
  /\ UNCHANGED << busy, errorMsg, inv, del, store, props, others,
                  existingImages >>

\* ------------------------------------------------------ specification
Next ==
  \/ ClickUpload
  \/ \E i \in Inv : UploadFile(i)
  \/ \E i \in Inv : InsertRows(i)
  \/ \E i \in Inv : Rollback(i)
  \/ \E i \in Inv : UploadSucceeded(i)
  \/ ClickDelete
  \/ onPick
  \/ removeSelected

Spec == Init /\ [][Next]_vars

\* the workflow invoked as an operation, whatever the selection is: the
\* mutation is started without going through the Upload button, once the
\* previous invocation has settled
InvokeUpload ==
  /\ \A j \in Inv : Free(j)
  /\ \E i \in Inv : mutate(i, selected)

NextWorkflow ==
  \/ InvokeUpload
  \/ \E i \in Inv : UploadFile(i)
  \/ \E i \in Inv : InsertRows(i)
  \/ \E i \in Inv : Rollback(i)
  \/ \E i \in Inv : UploadSucceeded(i)
  \/ ClickDelete
  \/ onPick
  \/ removeSelected

SpecWorkflow == Init /\ [][NextWorkflow]_vars

\* the uploader in the listing edit form with one image of any of the
\* FileNames selected: the upload derives the extension of its object path
InitExt ==
  /\ host = "ListingForm"
  /\ listingId = "L1"
  /\ existingImages = {}
  /\ selected \in { << NamedFile(name) >> : name \in FileNames }
  /\ busy = FALSE
  /\ errorMsg = NULL
  /\ inv = [i \in 1..MaxInv |-> IdleInv]
  /\ del = IdleDel
  /\ objects = {}
  /\ rows = {}
  /\ nextId = 1
  /\ nextRowId = 1
  /\ listingForm = IdleForm
  /\ contactModal = IdleContact
  /\ threadPage = IdleThread
  /\ PagesClosed

NextExt ==
  \/ ClickUpload
  \/ \E i \in Inv : UploadFile(i)
  \/ \E i \in Inv : InsertRows(i)
  \/ \E i \in Inv : Rollback(i)
  \/ \E i \in Inv : UploadSucceeded(i)

SpecExt == InitExt /\ [][NextExt]_vars

\* the steps of invocation i that wait for a store or for the query
\* client: each call returns, so each of them is taken once it is due
Progress(i) ==
  \/ UploadFile(i)
  \/ InsertRows(i)
  \/ Rollback(i)
  \/ UploadSucceeded(i)

\* the uploader as the listing edit form renders it: no existingImages are
\* passed, so no delete button is ever shown
InitEditForm == Init /\ host = "ListingForm"

NextEditForm ==
  \/ ClickUpload
  \/ \E i \in Inv : UploadFile(i)
  \/ \E i \in Inv : InsertRows(i)
  \/ \E i \in Inv : Rollback(i)
  \/ \E i \in Inv : UploadSucceeded(i)
  \/ onPick
  \/ removeSelected

SpecLive ==
  InitEditForm /\ [][NextEditForm]_vars
    /\ WF_vars(\E i \in Inv : Progress(i))

\* ---------------------------------------------- overlapping uploads
\* a second click on the Upload button while the render that disables it
\* (busy) is not committed yet: the first invocation has been started and
\* none of its calls has returned. The handler is the one of the same
\* render, so it sees the same selected and existingImages
ClickUploadAgain ==
  /\ Len(selected) # 0
  /\ \E j \in Inv : inv[j].pc = "uploading" /\ inv[j].calls = <<>>
  /\ \E i \in Inv : mutate(i, selected)

\* two mutations of the observer can be pending at a time in this model
InitRace ==
  /\ host \in {"ListingForm", "standalone"}
  /\ listingId = "L1"
  /\ existingImages = {}
  /\ selected = <<>>
  /\ busy = FALSE
  /\ errorMsg = NULL
  /\ inv = [i \in {1, 2} |-> IdleInv]
  /\ del = IdleDel
  /\ objects = {}
  /\ rows = {}
  /\ nextId = 1
  /\ nextRowId = 1
  /\ listingForm = IdleForm
  /\ contactModal = IdleContact
  /\ threadPage = IdleThread
  /\ PagesClosed

NextRace ==
  \/ ClickUpload
  \/ ClickUploadAgain
  \/ \E i \in Inv : UploadFile(i)
  \/ \E i \in Inv : InsertRows(i)
  \/ \E i \in Inv : Rollback(i)
  \/ \E i \in Inv : UploadSucceeded(i)
  \/ onPick
  \/ removeSelected

SpecRace == InitRace /\ [][NextRace]_vars

\* ------------------------------------------------- colliding paths
\* one turn of the for loop in which the generated id is the id of an
\* object already stored for the listing under the same extension, so that
\* the path built is the path of that object; an accepted put would
\* replace it
UploadFileColliding(i) ==
  /\ inv[i].pc = "uploading"
  /\ LET rec  == inv[i]
         file == rec.sel[Len(rec.uploadedRows) + 1]
         ext  == safeImageExt(getFileExt(file.name))
     IN  \E o \in objects :
           /\ o.path.listing = listingId
           /\ o.path.ext = ext
           /\ LET path == buildObjectPath(listingId, o.path.id, ext)
              IN  \E outcome \in {"ok", "error"} :
                    LET res == UploadResult(path, outcome)
                        new == afterUpload(rec, path, file, res)
                    IN  /\ objects' =
                             IF res = "ok"
                             THEN { x \in objects : x.path # path }
                                    \cup {[path |-> path, file |-> file]}
                             ELSE objects
                        /\ inv' = [inv EXCEPT ![i] = new]
                        /\ SetState(rec, new)
  /\ UNCHANGED << selected, del, rows, nextId, nextRowId, props, others,
                  existingImages >>

NextCollide ==
  \/ ClickUpload
  \/ \E i \in Inv : UploadFile(i)
  \/ \E i \in Inv : UploadFileColliding(i)
  \/ \E i \in Inv : InsertRows(i)
  \/ \E i \in Inv : Rollback(i)
  \/ \E i \in Inv : UploadSucceeded(i)
  \/ ClickDelete
  \/ onPick
  \/ removeSelected

SpecCollide == Init /\ [][NextCollide]_vars

\* ------------------------------- listing form and message mutations
\* String.prototype.trim on a tuple of characters (the blank is the only
\* white space of this model)
RECURSIVE trimStart(_)
trimStart(s) ==
  IF s # <<>> /\ Head(s) = " " THEN trimStart(Tail(s)) ELSE s

RECURSIVE trimEnd(_)
trimEnd(s) ==
  IF s # <<>> /\ s[Len(s)] = " " THEN trimEnd(SubSeq(s, 1, Len(s) - 1)) ELSE s

trim(s) == trimEnd(trimStart(s))

Digits == {"0", "1", "2", "3", "4", "5", "6", "7", "8", "9"}

\* /^[0-9]+$/.test(s.trim())
isIntString(s) ==
  LET v == trim(s)
  IN  Len(v) > 0 /\ \A k \in 1..Len(v) : v[k] \in Digits

\* /^[0-9]+(\.[0-9]+)?$/.test(s.trim())
isNumberString(s) ==
  LET v == trim(s)
      dots == { k \in 1..Len(v) : v[k] = "." }
  IN  /\ Len(v) > 0
      /\ \A k \in (1..Len(v)) \ dots : v[k] \in Digits
      /\ \/ dots = {}
         \/ \E d \in dots : dots = {d} /\ 1 < d /\ d < Len(v)

\* variant of validate: the numeric fields are only required, not parsed
validateRequiredOnly(f, mode, id) ==
  IF trim(f.make) = <<>> THEN "Make is required."
  ELSE IF trim(f.model) = <<>> THEN "Model is required."
  ELSE IF trim(f.year) = <<>> THEN "Year is required."
  ELSE IF trim(f.price) = <<>> THEN "Price is required."
  ELSE IF trim(f.mileage) = <<>> THEN "Mileage is required."
  ELSE IF trim(f.fuel_type) = <<>> THEN "Fuel type is required."
  ELSE IF trim(f.transmission) = <<>> THEN "Transmission is required."
  ELSE IF mode = "edit" /\ id = "" THEN "Missing listing id for edit."
  ELSE NULL

\* ListingForm.validate: the first complaint, NULL when there is none
validate(f, mode, id) ==
  IF trim(f.make) = <<>> THEN "Make is required."
  ELSE IF trim(f.model) = <<>> THEN "Model is required."
  ELSE IF trim(f.year) = <<>> THEN "Year is required."
  ELSE IF ~isIntString(f.year) THEN "Year must be a whole number."
  ELSE IF trim(f.price) = <<>> THEN "Price is required."
  ELSE IF ~isNumberString(f.price) THEN "Price must be a number."
  ELSE IF trim(f.mileage) = <<>> THEN "Mileage is required."
  ELSE IF ~isIntString(f.mileage) THEN "Mileage must be a whole number."
  ELSE IF trim(f.fuel_type) = <<>> THEN "Fuel type is required."
  ELSE IF trim(f.transmission) = <<>> THEN "Transmission is required."
  ELSE IF mode = "edit" /\ id = "" THEN "Missing listing id for edit."
  ELSE NULL

\* the text fields of the payload sent for a listing
textPayload(f) ==
  [ make |-> trim(f.make), model |-> trim(f.model),
    fuel_type |-> trim(f.fuel_type), transmission |-> trim(f.transmission) ]

\* the id the listings table gives to the row of an accepted insert
NewListingId == "L2"

\* variant of createListing: the insert is sent whoever getUser returned
createListingUnchecked(lf, payload, userOutcome, writeOutcome) ==
  LET getUser == [op |-> "getUser", result |-> userOutcome, arg |-> NULL]
      insert == [op |-> "insert", result |-> writeOutcome,
                 arg |-> [payload |-> payload, seller_id |-> userOutcome]]
  IN  IF writeOutcome = "error"
      THEN [lf EXCEPT !.status = "error", !.calls = <<getUser, insert>>,
                      !.errorMsg = "insert failed"]
      ELSE [lf EXCEPT !.status = "success", !.calls = <<getUser, insert>>,
                      !.onCreated = NewListingId]

\* the create branch of the mutation: getUser, then the insert of the
\* payload with seller_id = userRes.user.id, select("id").single();
\* onSuccess calls onCreated?.(res.id), onError shows the message
createListing(lf, payload, userOutcome, writeOutcome) ==
  LET getUser == [op |-> "getUser", result |-> userOutcome, arg |-> NULL]
      insert == [op |-> "insert", result |-> writeOutcome,
                 arg |-> [payload |-> payload, seller_id |-> userOutcome]]
      failed(calls, message) ==
        [lf EXCEPT !.status = "error", !.calls = calls, !.errorMsg = message]
  IN  IF userOutcome = "error" THEN failed(<<getUser>>, "auth failed")
      ELSE IF userOutcome = "none"
      THEN failed(<<getUser>>, "You must be logged in to create a listing.")
      ELSE IF writeOutcome = "error"
      THEN failed(<<getUser, insert>>, "insert failed")
      ELSE [lf EXCEPT !.status = "success", !.calls = <<getUser, insert>>,
                      !.onCreated = NewListingId]

\* ListingForm's mutation run to its end on the form lf: setErrorMsg(null),
\* validate, then (create) getUser and insert, or (edit) the update of the
\* row whose id is listingId; onSuccess calls onCreated or onSaved, onError
\* shows the message. userOutcome is the id of the signed-in user, "none"
\* or "error"
saveListing(lf, userOutcome, writeOutcome) ==
  LET start == [lf EXCEPT !.errorMsg = NULL, !.calls = <<>>,
                          !.onCreated = NULL, !.onSaved = FALSE]
      v == validate(lf.form, lf.mode, lf.listingId)
      payload == textPayload(lf.form)
      update == [op |-> "update", result |-> writeOutcome,
                 arg |-> [payload |-> payload, id |-> lf.listingId]]
  IN  IF v # NULL THEN [start EXCEPT !.status = "error", !.errorMsg = v]
      ELSE IF lf.mode = "create"
      THEN createListing(start, payload, userOutcome, writeOutcome)
      ELSE IF writeOutcome = "error"
      THEN [start EXCEPT !.status = "error", !.calls = <<update>>,
                         !.errorMsg = "update failed"]
      ELSE [start EXCEPT !.status = "success", !.calls = <<update>>,
                         !.onSaved = TRUE]

\* the Save button
SaveListing ==
  /\ \E userOutcome \in {"U1", "U2", "none", "error"},
        writeOutcome \in {"ok", "error"} :
       listingForm' = saveListing(listingForm, userOutcome, writeOutcome)
  /\ UNCHANGED << host, listingId, existingImages, ui, inv, del, store,
                  contactModal, threadPage, pages >>

\* ContactSellerModal: the Send button's onClick and the send mutation
sendContact(cm, outcome) ==
  LET insert == [op |-> "insert", result |-> outcome,
                 arg |-> [listing_id |-> cm.listingId, buyer_id |-> cm.userId,
                          seller_id |-> cm.sellerId,
                          message |-> trim(cm.message)]]
      failed(calls, message) ==
        [cm EXCEPT !.status = "error", !.calls = calls, !.notice = message]
  IN  IF cm.userId = NULL
      THEN [cm EXCEPT !.notice = "Please sign in to contact sellers.",
                      !.calls = <<>>]
      ELSE IF cm.listingId = "" THEN failed(<<>>, "Missing listing id.")
      ELSE IF trim(cm.message) = <<>>
      THEN failed(<<>>, "Please enter a message.")
      ELSE IF outcome = "error" THEN failed(<<insert>>, "insert failed")
      ELSE [cm EXCEPT !.status = "success", !.calls = <<insert>>,
                      !.notice = "Message sent!", !.message = <<>>]

SendContact ==
  /\ \E outcome \in {"ok", "error"} :
       contactModal' = sendContact(contactModal, outcome)
  /\ UNCHANGED << host, listingId, existingImages, ui, inv, del, store,
                  listingForm, threadPage, pages >>

\* MessageThreadPage's send mutation
sendThread(tp, outcome) ==
  LET insert == [op |-> "insert", result |-> outcome,
                 arg |-> [listing_id |-> tp.listingId, buyer_id |-> tp.buyerId,
                          seller_id |-> tp.listing,
                          message |-> trim(tp.text)]]
      failed(calls, message) ==
        [tp EXCEPT !.status = "error", !.calls = calls, !.error = message]
  IN  IF tp.userId = NULL
      THEN failed(<<>>, "Please sign in to send messages.")
      ELSE IF tp.listingId = "" \/ tp.buyerId = ""
      THEN failed(<<>>, "Missing thread params.")
      ELSE IF tp.listing = NULL THEN failed(<<>>, "Listing not loaded yet.")
      ELSE IF trim(tp.text) = <<>> THEN failed(<<>>, "Type a message.")
      ELSE IF outcome = "error" THEN failed(<<insert>>, "insert failed")
      ELSE [tp EXCEPT !.status = "success", !.calls = <<insert>>,
                      !.error = NULL, !.text = <<>>]

\* the Send button, which the page renders only for a signed-in user
SendThread ==
  /\ threadPage.userId # NULL
  /\ \E outcome \in {"ok", "error"} :
       threadPage' = sendThread(threadPage, outcome)
  /\ UNCHANGED << host, listingId, existingImages, ui, inv, del, store,
                  listingForm, contactModal, pages >>

\* what the user may have typed
Texts == { <<>>, <<" ">>, <<"T">>, <<" ","T"," ">> }
Choices == { <<>>, <<"G">> }
Years == { <<>>, <<"x">>, <<"2",".","5">>, <<" ","2","0">> }
Prices == { <<>>, <<"9",".">>, <<".","5">>, <<"9",".","5">>, <<"9">> }
Mileages == { <<>>, <<"7","k">>, <<"7"," ">> }

FormStates ==
  [ make : Texts, model : Texts, year : Years, price : Prices,
    mileage : Mileages, fuel_type : Choices, transmission : Choices ]

\* one of the three components is in use, filled in by the user in any way
InitForms ==
  /\ host = "ListingForm"
  /\ listingId = "L1"
  /\ existingImages = {}
  /\ selected = <<>>
  /\ busy = FALSE
  /\ errorMsg = NULL
  /\ inv = [i \in 1..MaxInv |-> IdleInv]
  /\ del = IdleDel
  /\ objects = {}
  /\ rows = {}
  /\ nextId = 1
  /\ nextRowId = 1
  /\ \/ /\ listingForm \in
            { [IdleForm EXCEPT !.mode = m, !.listingId = id, !.form = f] :
                m \in {"create", "edit"}, id \in {"", "L1"}, f \in FormStates }
        /\ contactModal = IdleContact
        /\ threadPage = IdleThread
     \/ /\ listingForm = IdleForm
        /\ contactModal \in
            { [IdleContact EXCEPT !.userId = u, !.listingId = id,
                                  !.message = m] :
                u \in {NULL, "U1"}, id \in {"", "L1"}, m \in Texts }
        /\ threadPage = IdleThread
     \/ /\ listingForm = IdleForm
        /\ contactModal = IdleContact
        /\ threadPage \in
            { [IdleThread EXCEPT !.userId = u, !.listingId = id,
                                 !.buyerId = b, !.listing = l, !.text = m] :
                u \in {NULL, "U1"}, id \in {"", "L1"}, b \in {"", "U1"},
                l \in {NULL, "S1"}, m \in Texts }
        \* the listing query is enabled only for a listing id
        /\ threadPage.listingId = "" => threadPage.listing = NULL
  /\ PagesClosed

NextForms ==
  \/ SaveListing
  \/ SendContact
  \/ SendThread

SpecForms == InitForms /\ [][NextForms]_vars

\* ---------------------------------------- details page and edit page
\* the seller_id of the row of listing L1 in the listings table
ListingSeller == "S1"

\* the users who may be signed in; NULL is nobody
Users == {"S1", "U2"}

\* the number of images stored for the listing when the pages are opened
MaxImages == 2

Positions == 0..2

\* the listing_images row of the n-th image of listing L1
ImageRow(n, position) ==
  [ id |-> n, listing_id |-> "L1", bucket |-> BUCKET,
    path |-> buildObjectPath("L1", n, jpg), position |-> position ]

\* what the table may hold for the listing: positions may repeat (uploads
\* of the edit form) and have gaps (deletes)
StoredImages ==
  { { ImageRow(n, pos[n]) : n \in 1..k } :
      k \in 0..MaxImages, pos \in [1..MaxImages -> Positions] }

\* the sequences that hold each element of S once
Orders(S) ==
  { s \in [1..Cardinality(S) -> S] :
      \A j \in DOMAIN s : \A k \in DOMAIN s : s[j] = s[k] => j = k }

\* select("*, listing_images(bucket, path, position)"): the embedded rows
\* of the listing come in an order the query does not fix
FetchedImages(table, id) ==
  Orders({ [bucket |-> r.bucket, path |-> r.path, position |-> r.position] :
             r \in { q \in table : q.listing_id = id } })

\* variant of comparePosition: the operands are swapped
comparePositionSwapped(a, b) == b.position - a.position

\* (a, b) => (a.position ?? 0) - (b.position ?? 0); position is a number
\* in every row the uploader writes
comparePosition(a, b) == a.position - b.position

\* Array.prototype.sort with comparePosition on a copy: the sort is stable,
\* an element goes behind those that do not compare greater
RECURSIVE sort(_)
sort(s) ==
  IF s = <<>> THEN <<>>
  ELSE LET n == Len(s)
           head == sort(SubSeq(s, 1, n - 1))
           k == Cardinality({ j \in 1..(n - 1) :
                                comparePosition(head[j], s[n]) <= 0 })
       IN  SubSeq(head, 1, k) \o << s[n] >> \o SubSeq(head, k + 1, n - 1)

\* what ListingDetailsPage renders: the early returns, then images, cover,
\* gallery (images.slice(1) when there are more than one) and canEdit
renderDetails(dp) ==
  LET blank(screen) ==
        [ screen |-> screen, images |-> <<>>, cover |-> <<>>,
          gallery |-> <<>>, canEdit |-> FALSE, editLink |-> "" ]
  IN  IF dp.id = "" THEN blank("Missing listing id.")
      ELSE IF dp.listingStatus = "pending" THEN blank("Loading listing")
      ELSE IF dp.listingStatus = "error" THEN blank("Failed to load listing")
      ELSE IF dp.row = <<>> THEN blank("Listing not found.")
      ELSE LET row == dp.row[1]
               images == sort(row.listing_images)
               canEdit == /\ dp.userId # NULL
                          /\ (dp.userId = row.seller_id \/ dp.isAdmin)
           IN  [ screen |-> "listing",
                 images |-> images,
                 cover |-> IF images = <<>> THEN <<>> ELSE << images[1] >>,
                 gallery |-> IF Len(images) > 1 THEN Tail(images) ELSE <<>>,
                 canEdit |-> canEdit,
                 editLink |-> IF canEdit THEN row.id ELSE "" ]

DetailsView == renderDetails(detailsPage)

\* fetchListing(listingId) of the details page has returned
DetailsListingFetched ==
  /\ detailsPage.mounted
  /\ detailsPage.listingStatus = "pending"
  /\ \/ \E images \in FetchedImages(rows, detailsPage.id) :
          detailsPage' =
            [detailsPage EXCEPT
               !.listingStatus = "success",
               !.row = << [ id |-> detailsPage.id,
                            seller_id |-> ListingSeller,
                            listing_images |-> images ] >>]
     \/ detailsPage' = [detailsPage EXCEPT !.listingStatus = "error"]
  /\ UNCHANGED << host, listingId, existingImages, ui, inv, del, store,
                  listingForm, contactModal, threadPage, session, editPage >>

\* the "auth-user-id" query of the details page: null on an error
DetailsAuthResolved ==
  /\ detailsPage.mounted
  /\ detailsPage.authStatus = "pending"
  /\ \E outcome \in {"ok", "error"} :
       LET id == IF outcome = "ok" THEN session.user ELSE NULL
       IN  detailsPage' =
             [detailsPage EXCEPT
                !.authStatus = "success", !.userId = id,
                !.adminStatus = IF id # NULL THEN "pending" ELSE "idle"]
  /\ UNCHANGED << host, listingId, existingImages, ui, inv, del, store,
                  listingForm, contactModal, threadPage, session, editPage >>

\* the "is-admin" query (enabled: !!userId): fetchIsAdmin(userId) has
\* returned or failed; on a failure isAdmin stays undefined
DetailsAdminResolved ==
  /\ detailsPage.mounted
  /\ detailsPage.adminStatus = "pending"
  /\ \E outcome \in {"ok", "error"} :
       detailsPage' =
         IF outcome = "ok"
         THEN [detailsPage EXCEPT !.adminStatus = "success",
                                  !.isAdmin = session.isAdmin]
         ELSE [detailsPage EXCEPT !.adminStatus = "error"]
  /\ UNCHANGED << host, listingId, existingImages, ui, inv, del, store,
                  listingForm, contactModal, threadPage, session, editPage >>

\* EditListingPage mounted for the route /listings/:id/edit
mountEdit(id, via) ==
  [IdleEdit EXCEPT !.mounted = TRUE, !.id = id, !.via = via,
                   !.authStatus = "pending"]

\* the Edit link of the details page
ClickEdit ==
  /\ detailsPage.mounted
  /\ ~editPage.mounted
  /\ DetailsView.canEdit
  /\ editPage' = mountEdit(DetailsView.editLink, "link")
  /\ detailsPage' = [detailsPage EXCEPT !.mounted = FALSE]
  /\ UNCHANGED << host, listingId, existingImages, ui, inv, del, store,
                  listingForm, contactModal, threadPage, session >>

\* the edit page opened by its address
OpenEditPage ==
  /\ ~editPage.mounted
  /\ \E id \in {"", "L1"} : editPage' = mountEdit(id, "url")
  /\ detailsPage' = [detailsPage EXCEPT !.mounted = FALSE]
  /\ UNCHANGED << host, listingId, existingImages, ui, inv, del, store,
                  listingForm, contactModal, threadPage, session >>

\* the "auth-user" query: fetchAuthUser returns the user, null when
\* getUser returns an error or nobody is signed in, or rejects when getUser
\* throws. The listing query (enabled: !!id && !!userId) starts with the
\* render that has a user id
EditAuthResolved ==
  /\ editPage.mounted
  /\ editPage.authStatus = "pending"
  /\ \E outcome \in {"ok", "error", "throw"} :
       LET id == IF outcome = "ok" THEN session.user ELSE NULL
           call == [op |-> "getUser", result |-> outcome, userId |-> id]
       IN  editPage' =
             [editPage EXCEPT
                !.authStatus = IF outcome = "throw" THEN "error" ELSE "success",
                !.userId = id,
                !.calls = Append(@, call),
                !.listingStatus = IF editPage.id # "" /\ id # NULL
                                  THEN "pending" ELSE "idle"]
  /\ UNCHANGED << host, listingId, existingImages, ui, inv, del, store,
                  listingForm, contactModal, threadPage, session,
                  detailsPage >>

\* fetchListing(id) of the edit page has returned
EditListingFetched ==
  /\ editPage.mounted
  /\ editPage.listingStatus = "pending"
  /\ \E outcome \in {"ok", "error"} :
       LET call == [op |-> "select", result |-> outcome,
                    userId |-> editPage.userId]
       IN  editPage' =
             IF outcome = "ok"
             THEN [editPage EXCEPT
                     !.listingStatus = "success",
                     !.listing = << [ id |-> editPage.id,
                                      seller_id |-> ListingSeller ] >>,
                     !.calls = Append(@, call)]
             ELSE [editPage EXCEPT !.listingStatus = "error",
                                   !.calls = Append(@, call)]
  /\ UNCHANGED << host, listingId, existingImages, ui, inv, del, store,
                  listingForm, contactModal, threadPage, session,
                  detailsPage >>

\* what a guard of the edit page returns: a message and no form
refused(message) ==
  [ screen |-> message, form |-> FALSE, uploader |-> FALSE, listingId |-> "" ]

\* <ListingForm mode="edit" listingId={id} initial={listing} showImages />;
\* the form shows the uploader for showImages, mode edit and a listing id
granted(id) ==
  [ screen |-> "form", form |-> TRUE, uploader |-> id # "", listingId |-> id ]

\* variant of renderEdit: without the ownership guard
renderEditForAnyUser(ep) ==
  IF ~ep.mounted THEN refused("")
  ELSE IF ep.id = "" THEN refused("Missing listing id.")
  ELSE IF ep.authStatus = "pending" THEN refused("Loading session")
  ELSE IF ep.authStatus = "error" THEN refused("Auth error")
  ELSE IF ep.userId = NULL
  THEN refused("You need to be logged in to edit listings.")
  ELSE IF ep.listingStatus = "pending" THEN refused("Loading listing")
  ELSE IF ep.listingStatus = "error" THEN refused("Failed to load listing")
  ELSE IF ep.listing = <<>> THEN refused("Listing not found.")
  ELSE granted(ep.id)

\* what EditListingPage renders: its guards in their order, then the form
renderEdit(ep) ==
  IF ~ep.mounted THEN refused("")
  ELSE IF ep.id = "" THEN refused("Missing listing id.")
  ELSE IF ep.authStatus = "pending" THEN refused("Loading session")
  ELSE IF ep.authStatus = "error" THEN refused("Auth error")
  ELSE IF ep.userId = NULL
  THEN refused("You need to be logged in to edit listings.")
  ELSE IF ep.listingStatus = "pending" THEN refused("Loading listing")
  ELSE IF ep.listingStatus = "error" THEN refused("Failed to load listing")
  ELSE IF ep.listing = <<>> THEN refused("Listing not found.")
  ELSE IF ep.listing[1].seller_id # ep.userId
  THEN refused("You don't have permission to edit this listing.")
  ELSE granted(ep.id)

EditView == renderEdit(editPage)

\* the Save button of the form the edit page renders
EditPageSave ==
  /\ EditView.form
  /\ \E writeOutcome \in {"ok", "error"} :
       listingForm' =
         saveListing([listingForm EXCEPT !.mode = "edit",
                                         !.listingId = EditView.listingId],
                     editPage.userId, writeOutcome)
  /\ UNCHANGED << host, listingId, existingImages, ui, inv, del, store,
                  contactModal, threadPage, pages >>

\* the details page of listing L1, or of no listing, is open; anybody or
\* nobody is signed in; the listing has any of the StoredImages
InitPages ==
  /\ host = "ListingForm"
  /\ listingId = "L1"
  /\ existingImages = {}
  /\ selected = <<>>
  /\ busy = FALSE
  /\ errorMsg = NULL
  /\ inv = [i \in 1..MaxInv |-> IdleInv]
  /\ del = IdleDel
  /\ rows \in StoredImages
  /\ objects = { [path |-> r.path, file |-> FileA] : r \in rows }
  /\ nextId = Cardinality(rows) + 1
  /\ nextRowId = Cardinality(rows) + 1
  /\ listingForm = IdleForm
  /\ contactModal = IdleContact
  /\ threadPage = IdleThread
  /\ session \in { [user |-> u, isAdmin |-> a] :
                     u \in Users \cup {NULL}, a \in BOOLEAN }
  /\ session.user = NULL => ~session.isAdmin
  /\ detailsPage \in
       { [IdleDetails EXCEPT
            !.mounted = TRUE, !.id = id, !.authStatus = "pending",
            !.listingStatus = IF id = "" THEN "idle" ELSE "pending"] :
           id \in {"", "L1"} }
  /\ editPage = IdleEdit

NextPages ==
  \/ DetailsListingFetched
  \/ DetailsAuthResolved
  \/ DetailsAdminResolved
  \/ ClickEdit
  \/ OpenEditPage
  \/ EditAuthResolved
  \/ EditListingFetched
  \/ EditPageSave

SpecPages == InitPages /\ [][NextPages]_vars

\* ------------------------------------------------------------ claims
\* the store calls of an invocation, by kind
CallsOf(rec, op) == { k \in 1..Len(rec.calls) : rec.calls[k].op = op }

\* paths of the puts of an invocation: all of them, and the accepted ones
PutPaths(rec) == { rec.calls[k].arg.path : k \in CallsOf(rec, "upload") }
OwnPaths(rec) ==
  { rec.calls[k].arg.path :
      k \in { j \in CallsOf(rec, "upload") : rec.calls[j].result = "ok" } }

FailedPuts(rec) ==
  { k \in CallsOf(rec, "upload") : rec.calls[k].result = "error" }
FailedInserts(rec) ==
  { k \in CallsOf(rec, "insert") : rec.calls[k].result = "error" }

\* C1: when the put of a file fails, it is the last store call of the
\* invocation (no put for a later file, no insert), no row of the table
\* carries a path of the batch, and the invocation has failed with the
\* error of that put.
C1_UploadFailureAborts ==
  \A i \in Inv : \A k \in FailedPuts(inv[i]) :
    /\ k = Len(inv[i].calls)
    /\ CallsOf(inv[i], "insert") = {}
    /\ \A r \in rows : r.path \notin PutPaths(inv[i])
    /\ inv[i].pc = "failed"
    /\ inv[i].err = UploadErrorMessage(inv[i].calls[k].arg.path)

\* C1 witness: a batch of two whose first put failed; the second file was
\* never put
C1_Witness ==
  \E i \in Inv :
    /\ Len(inv[i].sel) = 2
    /\ FailedPuts(inv[i]) = {1}
    /\ inv[i].pc = "failed"

\* C2: after a put of the batch failed, the invocation has issued no
\* object-store remove and every object it put before is still stored.
C2_EarlierUploadsStay ==
  \A i \in Inv :
    FailedPuts(inv[i]) # {} =>
      /\ CallsOf(inv[i], "remove") = {}
      /\ \A k \in CallsOf(inv[i], "upload") :
           inv[i].calls[k].result = "ok" =>
             [path |-> inv[i].calls[k].arg.path,
              file |-> inv[i].calls[k].arg.file] \in objects

\* C2 witness: the second put of two failed and the first object is stored
C2_Witness ==
  \E i \in Inv :
    /\ FailedPuts(inv[i]) = {2}
    /\ inv[i].pc = "failed"
    /\ OwnPaths(inv[i]) # {}
    /\ OwnPaths(inv[i]) \subseteq StoredPaths

\* C3: an invocation whose insert failed (all its puts having succeeded)
\* issues, right after the insert, one remove whose paths are exactly the
\* paths it put, in order; no path of a row of the table is among them.
C3_RollbackRemovesOwnUploads ==
  \A i \in Inv : \A k \in FailedInserts(inv[i]) :
    /\ inv[i].pc \in {"rollback", "failed"}
    /\ inv[i].pc = "failed" =>
         /\ Len(inv[i].calls) = k + 1
         /\ inv[i].calls[k + 1].op = "remove"
         /\ Len(inv[i].calls[k + 1].arg) = Len(inv[i].sel)
         /\ \A j \in 1..Len(inv[i].sel) :
              /\ inv[i].calls[j].op = "upload"
              /\ inv[i].calls[j].result = "ok"
              /\ inv[i].calls[k + 1].arg[j] = inv[i].calls[j].arg.path
         /\ \A r \in rows :
              \A j \in 1..Len(inv[i].calls[k + 1].arg) :
                inv[i].calls[k + 1].arg[j] # r.path

\* C3 witness: a batch rolled back while the listing has a row and an
\* object of an earlier invocation
C3_Witness ==
  \E i \in Inv :
    /\ inv[i].pc = "failed"
    /\ FailedInserts(inv[i]) # {}
    /\ Len(inv[i].sel) = 1
    /\ rows # {}
    /\ \A r \in rows : r.path \in StoredPaths

\* C4: an invocation whose insert failed ends failed with the insert error,
\* and the message shown is the insert error's message, whatever the
\* rollback remove did (resolved, returned an error, threw).
C4_InsertErrorIsShown ==
  \A i \in Inv :
    (inv[i].pc = "failed" /\ FailedInserts(inv[i]) # {}) =>
      /\ inv[i].err = InsertErrorMessage
      /\ errorMsg = InsertErrorMessage

\* C4 witness: the rollback remove threw
C4_Witness ==
  \E i \in Inv :
    /\ inv[i].pc = "failed"
    /\ FailedInserts(inv[i]) # {}
    /\ \E k \in CallsOf(inv[i], "remove") : inv[i].calls[k].result = "throw"

\* C5: a failed invocation leaves neither a row without its object nor an
\* object it put that has no row: each path it put is stored exactly when
\* a row carries it.
C5_FailsCleanly ==
  \A i \in Inv :
    inv[i].pc = "failed" =>
      \A p \in OwnPaths(inv[i]) :
        (p \in StoredPaths) <=> (\E r \in rows : r.path = p)

\* the rows a step adds to the table
NewRows == rows' \ rows

\* the step on which invocation i commits (its insert is accepted)
Commits(i) == inv[i].pc = "inserting" /\ inv'[i].pc = "onSuccess"

\* C6: when the table holds no image of the listing at the start of an
\* invocation, its commit adds exactly one row per selected file, the j-th
\* selected file (from 0) at position j, the row's path holding that file.
C6_EmptyListingPositions ==
  [][ \A i \in Inv :
        (Commits(i) /\ inv[i].tableMax = -1) =>
          /\ Cardinality(NewRows) = Len(inv[i].sel)
          /\ \A j \in 1..Len(inv[i].sel) :
               \E r \in NewRows :
                 /\ r.position = j - 1
                 /\ r.listing_id = listingId
                 /\ r.bucket = BUCKET
                 /\ [path |-> r.path, file |-> inv[i].sel[j]] \in objects
    ]_vars

\* C6 witness: two different files committed for a listing without images
C6_Witness ==
  \E i \in Inv :
    /\ inv[i].pc = "onSuccess"
    /\ inv[i].tableMax = -1
    /\ Len(inv[i].sel) = 2
    /\ inv[i].sel[1] # inv[i].sel[2]
    /\ Cardinality(rows) = 2

\* C7: under ListingForm, when the table holds images of the listing with
\* largest position k at the start of an invocation, the rows it inserts
\* have positions k+1..k+N in selection order.
C7_AppendsAfterMax ==
  \A i \in Inv : \A c \in CallsOf(inv[i], "insert") :
    (host = "ListingForm" /\ inv[i].tableMax >= 0) =>
      \A j \in 1..Len(inv[i].calls[c].arg) :
        inv[i].calls[c].arg[j].position = inv[i].tableMax + j

\* C8: the insert is called once, after a put of every file of the batch
\* has succeeded, in selection order; its payload has one row per file, in
\* that order, holding the listing id, the bucket, the file's path and its
\* position.
C8_OneBatchInsertAfterAllUploads ==
  \A i \in Inv : \A c \in CallsOf(inv[i], "insert") :
    /\ c = Len(inv[i].sel) + 1
    /\ CallsOf(inv[i], "insert") = {c}
    /\ Len(inv[i].calls[c].arg) = Len(inv[i].sel)
    /\ \A j \in 1..Len(inv[i].sel) :
         /\ inv[i].calls[j].op = "upload"
         /\ inv[i].calls[j].result = "ok"
         /\ inv[i].calls[j].arg.file = inv[i].sel[j]
         /\ inv[i].calls[c].arg[j] =
              [listing_id |-> listingId, bucket |-> BUCKET,
               path |-> inv[i].calls[j].arg.path,
               position |-> inv[i].startPos + j - 1]

\* C8 witness: the insert of a batch of two different files was called
C8_Witness ==
  \E i \in Inv :
    /\ CallsOf(inv[i], "insert") # {}
    /\ Len(inv[i].sel) = 2
    /\ inv[i].sel[1] # inv[i].sel[2]

\* C9: for a present listingId, every step of an invocation with an empty
\* selection leaves objects, rows, selection and message unchanged, makes
\* no store call, and takes the invocation to success, never to failure.
C9_EmptySelectionIsNoOp ==
  [][ \A i \in Inv :
        (inv'[i] # inv[i] /\ inv'[i].pc # "idle"
           /\ Len(inv'[i].sel) = 0 /\ listingId # "") =>
          /\ objects' = objects
          /\ rows' = rows
          /\ selected' = selected
          /\ errorMsg' = errorMsg
          /\ inv'[i].calls = <<>>
          /\ inv'[i].err = NULL
          /\ inv'[i].pc \in {"onSuccess", "done"}
    ]_vars

\* C9 witness: an invocation with an empty selection has settled in
\* success while the stores hold an image
C9_Witness ==
  \E i \in Inv :
    /\ inv[i].pc = "done"
    /\ Len(inv[i].sel) = 0
    /\ inv[i].calls = <<>>
    /\ rows # {}
    /\ objects # {}

\* C10: once the row delete of a delete operation has succeeded and its
\* object remove has returned an error, the operation has succeeded (no
\* error), both queries of the listing were invalidated, the table holds no
\* row with the image's id, and a fetch of the listing's images (the one
\* the host made, and any made now) does not contain it.
C10_RowGoneThoughObjectStays ==
  (/\ del.pc # "idle"
   /\ \E k \in CallsOf(del, "remove") : del.calls[k].result = "error") =>
    /\ del.pc = "done"
    /\ del.err = NULL
    /\ del.invalidated = QueryKeys
    /\ \A r \in rows : r.id # del.img.id
    /\ \A e \in Refetched(rows) : e.id # del.img.id
    /\ \A e \in existingImages : e.id # del.img.id

\* C10 witness: the delete succeeded and left the object behind
C10_Witness ==
  /\ del.pc = "done"
  /\ \E k \in CallsOf(del, "remove") : del.calls[k].result = "error"
  /\ del.img.path \in StoredPaths

\* C11: a delete operation calls the row delete first, for the image's id;
\* the object remove, for the image's path, is its second call and is made
\* only after the row delete returned without error. When the row delete
\* returned an error it is the only call, the operation has failed with
\* that error, the row is still in the table and the object still stored.
C11_RowFirstThenObject ==
  del.pc # "idle" =>
    /\ del.calls[1].op = "delete"
    /\ del.calls[1].arg = del.img.id
    /\ \A k \in CallsOf(del, "remove") :
         /\ k = 2
         /\ del.calls[1].result = "ok"
         /\ del.calls[k].arg = << del.img.path >>
    /\ del.calls[1].result = "error" =>
         /\ Len(del.calls) = 1
         /\ del.pc = "failed"
         /\ del.err = DeleteErrorMessage
         /\ del.invalidated = <<>>
         /\ \E r \in rows : r.id = del.img.id /\ r.path = del.img.path
         /\ del.img.path \in StoredPaths

\* C11 witness: the row delete of an image failed
C11_Witness ==
  /\ del.pc = "failed"
  /\ del.calls[1].result = "error"
  /\ \E r \in rows : r.id = del.img.id

\* the extension the claim C12 gives for a file name: the text after the
\* last dot, lower-cased, when it is one of the five; jpg in every other case
LastDot(name) == Max({ k \in 1..Len(name) : name[k] = "." })
AfterLastDot(name) == SubSeq(name, LastDot(name) + 1, Len(name))
ClaimedExt(name) ==
  IF /\ \E k \in 1..Len(name) : name[k] = "."
     /\ toLowerCase(AfterLastDot(name)) \in
          { <<"j","p","g">>, <<"j","p","e","g">>, <<"p","n","g">>,
            <<"w","e","b","p">>, <<"g","i","f">> }
  THEN toLowerCase(AfterLastDot(name))
  ELSE <<"j","p","g">>

\* C12: the extension in the path of every put is the text after the last
\* dot of the file's name, lower-cased, when that text is one of jpg, jpeg,
\* png, webp, gif, and jpg in every other case (no dot, nothing after the
\* last dot, another text); photo.heic gives jpg and a.PNG gives png.
C12_ExtensionOfPath ==
  /\ \A i \in Inv : \A k \in CallsOf(inv[i], "upload") :
       inv[i].calls[k].arg.path.ext = ClaimedExt(inv[i].calls[k].arg.file.name)
  /\ \A o \in objects : o.path.ext = ClaimedExt(o.file.name)
  /\ safeImageExt(getFileExt(<<"p","h","o","t","o",".","h","e","i","c">>))
       = <<"j","p","g">>
  /\ safeImageExt(getFileExt(<<"a",".","P","N","G">>)) = <<"p","n","g">>

\* C12 witness: an object is stored under png for a name whose last piece
\* is not in lower case
C12_Witness ==
  \E o \in objects :
    /\ o.path.ext = <<"p","n","g">>
    /\ toLowerCase(o.file.name) # o.file.name

\* C13: the puts of an invocation are its first calls, the k-th put is for
\* the k-th selected file, and a put is issued only when the put before it
\* has returned without error; every put issued has returned (its result is
\* logged) before the invocation makes its next call.
C13_UploadsOneAtATime ==
  \A i \in Inv : \A k \in CallsOf(inv[i], "upload") :
    /\ k <= Len(inv[i].sel)
    /\ inv[i].calls[k].arg.file = inv[i].sel[k]
    /\ inv[i].calls[k].result \in {"ok", "error"}
    /\ k > 1 => /\ inv[i].calls[k - 1].op = "upload"
                /\ inv[i].calls[k - 1].result = "ok"
    /\ inv[i].pc = "uploading" =>
         Len(inv[i].calls) = Len(inv[i].uploadedRows)

\* C13 witness: the second of two different files was put after the first
C13_Witness ==
  \E i \in Inv :
    /\ Cardinality(CallsOf(inv[i], "upload")) = 2
    /\ inv[i].sel[1] # inv[i].sel[2]
    /\ inv[i].calls[2].result = "ok"

\* C14: an invocation puts no more files than it has selected, and calls
\* the insert at most once and the rollback remove at most once; a call
\* that did not succeed is the last call of its kind in the invocation. A
\* delete operation calls the row delete once and the object remove at
\* most once.
C14_NoAutomaticRetry ==
  /\ \A i \in Inv :
       /\ Cardinality(CallsOf(inv[i], "upload")) <= Len(inv[i].sel)
       /\ Cardinality(CallsOf(inv[i], "insert")) <= 1
       /\ Cardinality(CallsOf(inv[i], "remove")) <= 1
       /\ \A k \in 1..Len(inv[i].calls) :
            inv[i].calls[k].result # "ok" =>
              \A j \in (k + 1)..Len(inv[i].calls) :
                inv[i].calls[j].op # inv[i].calls[k].op
  /\ Cardinality(CallsOf(del, "delete")) <= 1
  /\ Cardinality(CallsOf(del, "remove")) <= 1
  /\ del.pc # "idle" => Cardinality(CallsOf(del, "delete")) = 1

\* C14 witness: an invocation is over whose insert and rollback remove both
\* failed, after a delete operation whose object remove failed
C14_Witness ==
  \E i \in Inv :
    /\ inv[i].pc = "failed"
    /\ FailedInserts(inv[i]) # {}
    /\ \E k \in CallsOf(inv[i], "remove") : inv[i].calls[k].result = "error"
    /\ \E k \in CallsOf(del, "remove") : del.calls[k].result = "error"

\* the step on which the insert of invocation i returns without error
InsertAccepted(i) ==
  /\ inv[i].pc = "inserting"
  /\ Len(inv'[i].calls) = Len(inv[i].calls) + 1
  /\ inv'[i].calls[Len(inv'[i].calls)].op = "insert"
  /\ inv'[i].calls[Len(inv'[i].calls)].result = "ok"

\* C15: the step on which the insert is accepted empties the selection; an
\* invocation that ends in success after an insert has invalidated both
\* queries of the listing and called onUploaded (when the host passed one),
\* the selection being empty; a step that ends an invocation in failure
\* (listingId check, put, insert) leaves the selection as the invocation
\* found it; no other step of an invocation changes the selection.
C15_SelectionClearedOnCommit ==
  [][ \A i \in Inv :
        /\ InsertAccepted(i) => selected' = <<>>
        /\ (inv[i].pc # "done" /\ inv'[i].pc = "done"
              /\ CallsOf(inv'[i], "insert") # {}) =>
             /\ selected' = <<>>
             /\ inv'[i].invalidated = QueryKeys
             /\ host = "standalone" => inv'[i].onUploaded
        /\ (inv'[i] # inv[i] /\ inv'[i].pc = "failed") =>
             /\ selected' = selected
             /\ selected' = inv'[i].sel
        /\ (inv'[i] # inv[i] /\ selected' # selected) => InsertAccepted(i)
    ]_vars

\* C15 witness: a batch of two was committed under a host that passes
\* onUploaded; the selection is empty and the queries are invalidated
C15_Witness ==
  \E i \in Inv :
    /\ inv[i].pc = "done"
    /\ Len(inv[i].sel) = 2
    /\ inv[i].onUploaded
    /\ inv[i].invalidated = QueryKeys
    /\ selected = <<>>

\* C16: whenever an invocation is in flight, eventually none is (each has
\* settled, in success or in failure), when each of its calls returns;
\* while the last invocation is
\* one that failed, busy is false; and on the step that ends an invocation
\* in failure the selection is the one it was invoked on and, when that is
\* not empty, the Upload button is enabled.
C16_SettlesAndIsIdleAgain ==
  /\ (\E i \in 1..MaxInv : InFlight(i))
       ~> (\A i \in 1..MaxInv : inv[i].pc \in {"idle", "done", "failed"})
  /\ [](\A i \in 1..MaxInv : inv[i].pc = "failed" => ~busy)
  /\ [][ \A i \in 1..MaxInv :
           (inv'[i] # inv[i] /\ inv'[i].pc = "failed") =>
             /\ selected' = inv'[i].sel
             /\ Len(selected') # 0 => UploadEnabled'
       ]_vars

\* C16 witness: an invocation failed on a put and the Upload button is
\* enabled for the selection it kept
C16_Witness ==
  \E i \in Inv :
    /\ inv[i].pc = "failed"
    /\ FailedPuts(inv[i]) # {}
    /\ selected = inv[i].sel
    /\ UploadEnabled

\* C17: with an empty listingId, a step of an invocation ends it in failure
\* with the error "listingId is required", which is the message shown; the
\* invocation has made no store call and the step leaves the objects and
\* the rows as they were.
C17_MissingListingIdRejected ==
  [][ \A i \in Inv :
        (listingId = "" /\ inv'[i] # inv[i]) =>
          /\ inv'[i].pc = "failed"
          /\ inv'[i].calls = <<>>
          /\ inv'[i].err = "listingId is required"
          /\ errorMsg' = "listingId is required"
          /\ objects' = objects
          /\ rows' = rows
          /\ nextId' = nextId
    ]_vars

\* C17 witness: an upload of a selected image was rejected for its empty
\* listingId
C17_Witness ==
  \E i \in Inv :
    /\ listingId = ""
    /\ inv[i].pc = "failed"
    /\ Len(inv[i].sel) > 0
    /\ errorMsg = "listingId is required"

\* a text the claim C18 calls empty
Blank(s) == \A k \in 1..Len(s) : s[k] = " "

\* the listing form has a required field empty or malformed
FormInvalid(lf) ==
  \/ Blank(lf.form.make)
  \/ Blank(lf.form.model)
  \/ ~isIntString(lf.form.year)
  \/ ~isNumberString(lf.form.price)
  \/ ~isIntString(lf.form.mileage)
  \/ Blank(lf.form.fuel_type)
  \/ Blank(lf.form.transmission)
  \/ (lf.mode = "edit" /\ lf.listingId = "")

FormMessages ==
  { "Make is required.", "Model is required.", "Year is required.",
    "Year must be a whole number.", "Price is required.",
    "Price must be a number.", "Mileage is required.",
    "Mileage must be a whole number.", "Fuel type is required.",
    "Transmission is required.", "Missing listing id for edit." }

\* C18: a save of a listing form with a required field empty or malformed
\* (or without listing id in edit mode), a contact message and a thread
\* message with a blank text, without user or without their ids, make no
\* call to the backend, and what is shown is the message of the check that
\* rejected the input.
C18_InvalidInputIsNotSent ==
  [][ /\ (listingForm' # listingForm /\ FormInvalid(listingForm)) =>
           /\ listingForm'.calls = <<>>
           /\ listingForm'.status = "error"
           /\ listingForm'.errorMsg \in FormMessages
      /\ (contactModal' # contactModal
            /\ (\/ contactModal.userId = NULL
                \/ contactModal.listingId = ""
                \/ Blank(contactModal.message))) =>
           /\ contactModal'.calls = <<>>
           /\ contactModal'.status # "success"
           /\ contactModal'.notice \in
                { "Please sign in to contact sellers.", "Missing listing id.",
                  "Please enter a message." }
      /\ (threadPage' # threadPage
            /\ (\/ threadPage.userId = NULL
                \/ threadPage.listingId = ""
                \/ threadPage.buyerId = ""
                \/ Blank(threadPage.text))) =>
           /\ threadPage'.calls = <<>>
           /\ threadPage'.status = "error"
           /\ threadPage'.error \in
                { "Please sign in to send messages.", "Missing thread params.",
                  "Listing not loaded yet.", "Type a message." }
    ]_vars

\* C18 witness: a form whose only fault is a malformed price was rejected
C18_Witness ==
  /\ listingForm.status = "error"
  /\ listingForm.errorMsg = "Price must be a number."
  /\ listingForm.calls = <<>>
  /\ listingForm.form.price = <<"9",".">>

\* the insert of the invocation was accepted
Committed(rec) ==
  \E k \in CallsOf(rec, "insert") : rec.calls[k].result = "ok"

\* C19: an invocation can be started while another one is in flight and
\* the component is busy; it is then started on the same selection and
\* computes the same starting position as the one in flight. Once the
\* inserts of two invocations with the same starting position have both
\* been accepted, the table holds a row of each of them for the listing at
\* that same position.
C19_OverlapDuplicatesPositions ==
  [][ \A i \in Inv : \A j \in Inv \ {i} :
        /\ (/\ busy /\ inv[j].pc = "uploading"
            /\ Free(i) /\ inv'[i].pc = "uploading") =>
             /\ inv'[j] = inv[j]
             /\ inv'[i].startPos = inv[j].startPos
             /\ inv'[i].sel = inv[j].sel
        /\ (/\ Committed(inv'[i]) /\ Committed(inv'[j])
            /\ inv'[i].startPos = inv'[j].startPos) =>
             \E r \in rows' : \E q \in rows' \ {r} :
               /\ r.path = inv'[i].calls[1].arg.path
               /\ q.path = inv'[j].calls[1].arg.path
               /\ r.listing_id = listingId /\ q.listing_id = listingId
               /\ r.position = inv'[i].startPos
               /\ q.position = r.position
    ]_vars

\* C19 witness: two invocations that were in flight together have both
\* committed, and the listing has two rows at the same position
C19_Witness ==
  /\ \A i \in Inv : Committed(inv[i]) /\ inv[i].tableMax = -1
  /\ \E r \in rows : \E q \in rows \ {r} :
       r.listing_id = q.listing_id /\ r.position = q.position

\* the step on which a put of invocation i returns
PutReturns(i) ==
  /\ inv[i].pc = "uploading"
  /\ Len(inv'[i].calls) = Len(inv[i].calls) + 1
  /\ inv'[i].calls[Len(inv'[i].calls)].op = "upload"

\* C20: every put is issued with upsert false; a put to a path at which an
\* object is stored returns an error, leaves the objects (and the rows) as
\* they were, and ends the invocation in failure with that error, no
\* further call being made; no two stored objects share a path.
C20_PutNeverOverwrites ==
  [][ \A i \in Inv :
        PutReturns(i) =>
          LET call == inv'[i].calls[Len(inv'[i].calls)]
          IN  /\ call.arg.upsert = FALSE
              /\ call.arg.path \in StoredPaths =>
                   /\ call.result = "error"
                   /\ objects' = objects
                   /\ rows' = rows
                   /\ inv'[i].pc = "failed"
                   /\ inv'[i].err = UploadErrorMessage(call.arg.path)
                   /\ errorMsg' = UploadErrorMessage(call.arg.path)
              /\ \A x \in objects' : \A y \in objects' :
                   x.path = y.path => x = y
    ]_vars

\* C20 witness: the second put of a batch went to the path of a stored
\* object of the listing and failed; the first object of the batch and the
\* object at that path are stored
C20_Witness ==
  \E i \in Inv :
    /\ inv[i].pc = "failed"
    /\ Len(inv[i].calls) = 2
    /\ inv[i].calls[2].op = "upload"
    /\ inv[i].calls[2].result = "error"
    /\ inv[i].calls[2].arg.path \in StoredPaths
    /\ inv[i].calls[1].arg.path \in StoredPaths

\* C21: no two rows of the table share (bucket, path); the path of every
\* row and of every put lies under the listing's folder, and the puts of
\* one invocation go to pairwise different paths.
C21_RowsAddressableByPath ==
  /\ \A r \in rows : \A q \in rows :
       (r.bucket = q.bucket /\ r.path = q.path) => r = q
  /\ \A r \in rows : r.path.listing = r.listing_id /\ r.bucket = BUCKET
  /\ \A i \in Inv :
       \A k \in CallsOf(inv[i], "upload") :
         /\ inv[i].calls[k].arg.path.listing = listingId
         /\ \A j \in CallsOf(inv[i], "upload") \ {k} :
              inv[i].calls[j].arg.path # inv[i].calls[k].arg.path

\* C21 witness: the same file was selected twice and committed in one
\* batch; the table holds its two rows
C21_Witness ==
  \E i \in Inv :
    /\ Len(inv[i].sel) = 2
    /\ inv[i].sel[1] = inv[i].sel[2]
    /\ Committed(inv[i])
    /\ Cardinality(rows) = 2

\* C22: while the last invocation is one that failed, the message shown is
\* the message of its error (of the listingId check, of the put that
\* failed, with that put's own message, or of the insert); a message is
\* shown only while the last invocation is one that failed.
C22_LastFailureIsShown ==
  /\ \A i \in Inv :
       inv[i].pc = "failed" =>
         /\ inv[i].err # NULL
         /\ errorMsg = inv[i].err
         /\ \A k \in FailedPuts(inv[i]) :
              errorMsg = UploadErrorMessage(inv[i].calls[k].arg.path)
         /\ FailedInserts(inv[i]) # {} => errorMsg = InsertErrorMessage
         /\ inv[i].calls = <<>> => errorMsg = "listingId is required"
  /\ errorMsg # NULL => \E i \in Inv : inv[i].pc = "failed"

\* C22 witness: the second put of a batch failed and the message shown is
\* the one of that put
C22_Witness ==
  \E i \in Inv :
    /\ inv[i].pc = "failed"
    /\ FailedPuts(inv[i]) = {2}
    /\ errorMsg = UploadErrorMessage(inv[i].calls[2].arg.path)

\* C24: in the listing edit form, where upload invocations follow one
\* another (each starts after the previous one has settled), no two rows of
\* one listing have the same position
C24_NoDuplicatePositions ==
  host = "ListingForm" =>
    \A r \in rows : \A q \in rows :
      (r.listing_id = q.listing_id /\ r.position = q.position) => r = q

\* the paths an invocation has put with success before its call k
PutBefore(rec, k) ==
  { rec.calls[j].arg.path :
      j \in { m \in CallsOf(rec, "upload") :
                m < k /\ rec.calls[m].result = "ok" } }

\* C25: every row of listing_images references an object that is stored.
\* An invocation inserts rows only for paths it has put with success
\* before, its rollback remove comes only after its insert returned an
\* error (so none of its rows is in the table) and takes only paths no row
\* has, and a delete operation calls the object remove only after its row
\* delete succeeded, when no row has the path any more.
C25_RowsReferenceStoredObjects ==
  /\ \A r \in rows : r.bucket = BUCKET /\ r.path \in StoredPaths
  /\ \A i \in Inv :
       /\ \A k \in CallsOf(inv[i], "insert") :
            \A n \in 1..Len(inv[i].calls[k].arg) :
              inv[i].calls[k].arg[n].path \in PutBefore(inv[i], k)
       /\ \A k \in CallsOf(inv[i], "remove") :
            /\ k > 1
            /\ inv[i].calls[k - 1].op = "insert"
            /\ inv[i].calls[k - 1].result = "error"
            /\ \A n \in 1..Len(inv[i].calls[k].arg) :
                 \A r \in rows : r.path # inv[i].calls[k].arg[n]
  /\ \A k \in CallsOf(del, "remove") :
       /\ k = 2
       /\ del.calls[1].op = "delete"
       /\ del.calls[1].result = "ok"
       /\ \A r \in rows : r.id # del.img.id /\ r.path # del.img.path

\* C25 witness: of two rows one was deleted, its object removed, and the
\* row that is left still has its object
C25_Witness ==
  /\ del.pc = "done"
  /\ \E k \in CallsOf(del, "remove") : del.calls[k].result = "ok"
  /\ del.img.path \notin StoredPaths
  /\ rows # {}

\* C26: while an upload invocation with a non-empty batch is in flight (it
\* has started its uploads and has not settled), busy is true, so that the
\* Upload, Add images and remove-from-selection controls are disabled
C26_BusyWhileInFlight ==
  \A i \in Inv :
    (InFlight(i) /\ inv[i].sel # <<>>) => (busy /\ ~UploadEnabled)

\* the calls of a listing form's last save, by kind
FormCalls(lf, op) == { k \in 1..Len(lf.calls) : lf.calls[k].op = op }

\* C29: a save in create mode sends an insert only for a valid form and
\* after getUser returned a user, with that user's id as seller_id; when
\* getUser fails or returns no user nothing is inserted and the error is
\* shown. onCreated is called only after an accepted insert, with the id of
\* the new row. A save in edit mode sends nothing but one update of the row
\* with the given listing id.
C29_CreateInsertsForSignedInUser ==
  /\ \A k \in FormCalls(listingForm, "insert") :
       /\ listingForm.mode = "create"
       /\ ~FormInvalid(listingForm)
       /\ k = 2
       /\ listingForm.calls[1].op = "getUser"
       /\ listingForm.calls[1].result \notin {"none", "error"}
       /\ listingForm.calls[k].arg.seller_id = listingForm.calls[1].result
       /\ listingForm.calls[k].arg.payload = textPayload(listingForm.form)
  /\ \A k \in FormCalls(listingForm, "getUser") :
       listingForm.calls[k].result \in {"none", "error"} =>
         /\ FormCalls(listingForm, "insert") = {}
         /\ listingForm.status = "error"
         /\ listingForm.errorMsg =
              IF listingForm.calls[k].result = "none"
              THEN "You must be logged in to create a listing."
              ELSE "auth failed"
  /\ listingForm.onCreated # NULL =>
       /\ listingForm.onCreated = NewListingId
       /\ listingForm.status = "success"
       /\ \E k \in FormCalls(listingForm, "insert") :
            listingForm.calls[k].result = "ok"
  /\ (listingForm.mode = "create" /\ listingForm.status = "success") =>
       listingForm.onCreated = NewListingId
  /\ listingForm.mode = "edit" =>
       /\ listingForm.onCreated = NULL
       /\ \A k \in 1..Len(listingForm.calls) :
            /\ k = 1
            /\ listingForm.calls[k].op = "update"
            /\ listingForm.calls[k].arg.id = listingForm.listingId
            /\ listingForm.listingId # ""

\* C29 witness: a listing was created for user U2 and onCreated was called
C29_Witness ==
  /\ listingForm.mode = "create"
  /\ listingForm.status = "success"
  /\ listingForm.onCreated = NewListingId
  /\ listingForm.calls[2].op = "insert"
  /\ listingForm.calls[2].arg.seller_id = "U2"

\* the place of image x in the fetched sequence s
PlaceIn(s, x) == CHOOSE k \in 1..Len(s) : s[k] = x

\* C23: the details page shows the fetched images of the listing, each
\* once, in non-decreasing order of position, images of equal position in
\* the order in which they were fetched; the cover is the first of them,
\* an image of minimum position, and the gallery is the rest in that order
C23_ImagesInPositionOrder ==
  DetailsView.screen = "listing" =>
    LET fetched == detailsPage.row[1].listing_images
        images == DetailsView.images
        n == Len(fetched)
    IN  /\ Len(images) = n
        /\ \A k \in 1..n : \E j \in 1..n : images[j] = fetched[k]
        /\ \A j \in 1..n : \A k \in 1..n :
             j < k =>
               /\ images[j].position <= images[k].position
               /\ images[j].position = images[k].position =>
                    PlaceIn(fetched, images[j]) < PlaceIn(fetched, images[k])
        /\ IF n = 0 THEN DetailsView.cover = <<>>
           ELSE /\ Len(DetailsView.cover) = 1
                /\ DetailsView.cover[1] = images[1]
                /\ \A k \in 1..n :
                     DetailsView.cover[1].position <= fetched[k].position
        /\ DetailsView.gallery = [k \in 1..(n - 1) |-> images[k + 1]]
        /\ n = 0 => DetailsView.gallery = <<>>

\* C23 witness: two images were fetched with the greater position first,
\* and the page shows the second one fetched as the cover
C23_Witness ==
  /\ DetailsView.screen = "listing"
  /\ Len(detailsPage.row[1].listing_images) = 2
  /\ detailsPage.row[1].listing_images[1].position
       > detailsPage.row[1].listing_images[2].position
  /\ DetailsView.cover = << detailsPage.row[1].listing_images[2] >>
  /\ DetailsView.gallery = << detailsPage.row[1].listing_images[1] >>

\* C27: the edit page renders the listing form, and with it the save and
\* upload actions, only when its auth query has resolved to the signed-in
\* user, the listing is loaded and the listing's seller_id is that user's
\* id. The listing is fetched only after getUser returned a user. In every
\* other state of the open page a message is shown, there is neither form
\* nor uploader, and no save has been made.
C27_FormOnlyForSignedInSeller ==
  /\ EditView.form =>
       /\ editPage.authStatus = "success"
       /\ editPage.userId # NULL
       /\ editPage.userId = session.user
       /\ editPage.listingStatus = "success"
       /\ editPage.listing # <<>>
       /\ editPage.listing[1].id = editPage.id
       /\ editPage.listing[1].seller_id = editPage.userId
       /\ EditView.listingId = editPage.id
  /\ \A k \in 1..Len(editPage.calls) :
       editPage.calls[k].op = "select" =>
         /\ editPage.calls[k].userId # NULL
         /\ \E j \in 1..(k - 1) :
              /\ editPage.calls[j].op = "getUser"
              /\ editPage.calls[j].result = "ok"
              /\ editPage.calls[j].userId = editPage.calls[k].userId
  /\ (editPage.mounted /\ ~EditView.form) =>
       /\ EditView.screen # ""
       /\ EditView.screen # "form"
       /\ ~EditView.uploader
       /\ listingForm.status = "idle"
  /\ listingForm.status # "idle" =>
       /\ listingForm.mode = "edit"
       /\ listingForm.listingId = editPage.id
       /\ editPage.listing[1].seller_id = session.user

\* C27 witness: the seller opened the edit page by its address, was given
\* the form with the uploader, and saved
C27_Witness ==
  /\ editPage.via = "url"
  /\ EditView.form
  /\ EditView.uploader
  /\ editPage.userId = ListingSeller
  /\ listingForm.status = "success"

\* C28: a user who followed the Edit link of the details page of a listing
\* (the seller, or a user for whom the admin check is true) and whose
\* session and listing the edit page has loaded is given the edit form
C28_EditLinkLeadsToForm ==
  (/\ editPage.via = "link"
   /\ editPage.authStatus = "success"
   /\ editPage.userId # NULL
   /\ editPage.listingStatus = "success") => EditView.form

====
